---- MODULE Spec2Model ----
(***************************************************************************)
(* Battlemaster: the Jetstream ingestion loop of src/src/main.ts (the      *)
(* current revision, lines 272-614): startup, the onCreate callback, the   *)
(* dedup cache and its sweep, the two cursor writers and the shutdown      *)
(* sequence.  handler.ts, labeler.ts, config.ts and the Did/Rkey schemas   *)
(* are not part of the sources; they are modelled from the design text and *)
(* from the mock in tests/schema_test.ts.  Spec runs the program on a feed  *)
(* of ordinary likes, SpecEdge on a feed of the special cases, SpecDrop on  *)
(* a feed of malformed events.                                              *)
(***************************************************************************)
EXTENDS Integers, Sequences, FiniteSets, TLC

VARIABLES
    mainPc,           \* position of main(): "config","auth","starting","running","failed"
    exitCode,         \* "none" while the process lives, else "0" or "1" (Deno.exit)
    now,              \* Date.now(), milliseconds
    configCursor,     \* CONFIG.CURSOR, written by setConfigValue('CURSOR', ..)
    kvCursor,         \* kv entry ['cursor'], written by the checkpoint timer
    jetstreamCursor,  \* jetstream.cursor (0: unset)
    connState,        \* Handler connection state
    feedPos,          \* time_us of the last event the feed delivered on this connection
    processedEvents,  \* the module-level dedup Set
    tasks,            \* one record per invocation of the onCreate callback (wrote: it
                      \* issued the cursor write of lines 488-490; shut: the shutdown
                      \* guard was set when it was invoked)
    applied,          \* createLabel requests received by the labeling service
    lastWrite,        \* the latest cursor write issued (WriteRec), src "none" before any
    prevWrite,        \* the value of the cursor write issued before it
    isShuttingDown,   \* the closure variable of setupShutdownHandlers
    sigPc,            \* position of each invocation of shutdown(), by signal number
    sigWill,          \* how the step an invocation awaits will settle
    calls,            \* number of calls of each drain step
    configClosed,     \* closeConfig() has been invoked
    repeatedSignal    \* a signal arrived whose shutdown() returned at the guard

vars == << mainPc, exitCode, now, configCursor, kvCursor, jetstreamCursor, connState,
           feedPos, processedEvents, tasks, applied, lastWrite, prevWrite,
           isShuttingDown, sigPc, sigWill, calls, configClosed, repeatedSignal >>

---------------------------------------------------------------------------
(* Bounds of the exploration. *)

MaxDeliveries == 2
MaxSignals == 2
MaxNow == 300001

(* Program constants. *)

CACHE_CLEANUP_INTERVAL == 300000
EVENT_RETENTION_DURATION == 3600000

CONFIG_DID == "did:plc:authority"

---------------------------------------------------------------------------
(* The label catalog (src/src/labels.ts, current revision). *)

LABELS ==
    << [rkey |-> "3l7jxzftheq2o", identifier |-> "pvp", category |-> "pvp"],
       [rkey |-> "3l7jy25rx3t2s", identifier |-> "pve", category |-> "pve"],
       [rkey |-> "3l7jy2pqpz72p", identifier |-> "rp",  category |-> "rp"],
       [rkey |-> "3l7jy2zq3z2qo", identifier |-> "",    category |-> ""] >>

CATEGORY_PREFIXES_WithEmpty == {"pvp", "pve", "rp", ""}

CATEGORY_PREFIXES == {"pvp", "pve", "rp"}

(* The catalog of the earlier revision of labels.ts (lines 4-40), which    *)
(* the module validates entry by entry when it is loaded (42-46), and the  *)
(* label schema it validates with.  locales is the number of locale        *)
(* records of the entry.                                                   *)
DraftLABELS ==
    << [rkey |-> "rkey tbd",   identifier |-> "pvp", locales |-> 1],
       [rkey |-> "rkey tbd",   identifier |-> "pve", locales |-> 1],
       [rkey |-> "'rkey tbd'", identifier |-> "rp",  locales |-> 1] >>

(* String.length of the strings the schema is applied to. *)
StrLen(s) ==
    CASE s = ""                   -> 0
      [] s = "rp"                 -> 2
      [] s \in {"pvp", "pve"}     -> 3
      [] s = "rkey tbd"           -> 8
      [] s = "'rkey tbd'"         -> 10
      [] s = "test-label"         -> 10
      [] s \in {"3jzfcijpj2z2a", "3l7jxzftheq2o", "3l7jy25rx3t2s",
                "3l7jy2pqpz72p", "3l7jy2zq3z2qo"} -> 13
      [] s = "3jzfcijpj2z2aa"     -> 14

(* LabelSchema.parse succeeds: rkey of length 13, identifier of length at  *)
(* least 1, a non-empty array of locales.                                  *)
LabelSchemaAccepts(label) ==
    /\ StrLen(label.rkey) = 13
    /\ StrLen(label.identifier) >= 1
    /\ label.locales >= 1

(* labels.ts 42-46: the module loads if no parse throws. *)
DraftCatalogLoads == \A k \in 1..Len(DraftLABELS) : LabelSchemaAccepts(DraftLABELS[k])

---------------------------------------------------------------------------
(* Strings.  A string that the program splits is given by its segments.    *)
(* A ':'-segment is [txt, num]: its text and what parseInt makes of it     *)
(* (the leading decimal digits; num < 0 stands for NaN).                   *)

TextSeg(t) == [txt |-> t, num |-> -1]

NumSeg(n) == [txt |-> "", num |-> n]

DidSegments(did) ==
    CASE did = "did:plc:user1"    -> << TextSeg("did"), TextSeg("plc"), TextSeg("user1") >>
      [] did = CONFIG_DID         -> << TextSeg("did"), TextSeg("plc"), TextSeg("authority") >>
      [] did = "did:plc:7iza6de2" -> << TextSeg("did"), TextSeg("plc"),
                                        [txt |-> "7iza6de2", num |-> 7] >>
      [] OTHER                    -> << [txt |-> did, num |-> -1] >>

(* s.includes(d) for the strings of the model: d is s itself or is listed  *)
(* as a proper substring of s.                                             *)
ProperSubstrings == { << "did:plc:authorityx", "did:plc:authority" >> }

StrIncludes(s, d) == s = d \/ << s, d >> \in ProperSubstrings

(* The feed: commit events of the wanted collection, in time_us order.     *)
(* uri is the subject URI split at '/'.                                    *)

OwnedUri(rkey) == << "at:", "", CONFIG_DID, "app.bsky.feed.post", rkey >>

OtherUri(rkey) == << "at:", "", "did:plc:other", "app.bsky.feed.post", rkey >>

Events ==
    { [did |-> "did:plc:user1", rev |-> "rev1", shape |-> "ok",
       uri |-> OwnedUri("3l7jxzftheq2o"), time_us |-> 1001],
      [did |-> "did:plc:7iza6de2", rev |-> "rev2", shape |-> "ok",
       uri |-> OwnedUri("3l7jy25rx3t2s"), time_us |-> 1002],
      [did |-> "did:plc:user1", rev |-> "rev3", shape |-> "ok",
       uri |-> OwnedUri("3jzfcijpj2z2z"), time_us |-> 1003],
      [did |-> "did:plc:7iza6de2", rev |-> "rev4", shape |-> "ok",
       uri |-> OtherUri("3l7jxzftheq2o"), time_us |-> 1004] }

(* Values CONFIG.CURSOR can hold when the configuration is loaded: one     *)
(* older than the start of the run (Date.now() * 1000 = 1000), one not.    *)
StoredCursors == {0, 1000}

(* A second feed, of the events the callback and the labeler treat         *)
(* specially: the authority liking its own labeler record (record key      *)
(* 'self'), a like of the marker post of the label-removal entry, and a    *)
(* like of a post of another account whose DID has the authority's DID as  *)
(* a prefix.                                                               *)
SelfUri == << "at:", "", CONFIG_DID, "app.bsky.labeler.service", "self" >>

LookalikeUri(rkey) == << "at:", "", "did:plc:authorityx", "app.bsky.feed.post", rkey >>

EdgeEvents ==
    { [did |-> CONFIG_DID, rev |-> "rev5", shape |-> "ok",
       uri |-> SelfUri, time_us |-> 1001],
      [did |-> "did:plc:user1", rev |-> "rev6", shape |-> "ok",
       uri |-> OwnedUri("3l7jy2zq3z2qo"), time_us |-> 1002],
      [did |-> "did:plc:7iza6de2", rev |-> "rev7", shape |-> "ok",
       uri |-> LookalikeUri("3l7jxzftheq2o"), time_us |-> 1003] }

(* A third feed, of events the callback drops before the labeler call: an  *)
(* event without a commit object, one whose record has no subject, a       *)
(* subject URI that ends in '/', an actor that is no DID, a tail that is   *)
(* no record key; and after them an ordinary like.  The fields an event    *)
(* lacks are filled in, so that nothing but its shape makes it invalid.    *)
DropEvents ==
    { [did |-> "did:plc:user1", rev |-> "", shape |-> "nocommit",
       uri |-> OwnedUri("3l7jxzftheq2o"), time_us |-> 1001],
      [did |-> "did:plc:user1", rev |-> "rev8", shape |-> "nosubject",
       uri |-> OwnedUri("3l7jxzftheq2o"), time_us |-> 1002],
      [did |-> "did:plc:user1", rev |-> "rev9", shape |-> "ok",
       uri |-> OwnedUri(""), time_us |-> 1003],
      [did |-> "not-a-did", rev |-> "rev10", shape |-> "ok",
       uri |-> OwnedUri("3l7jxzftheq2o"), time_us |-> 1004],
      [did |-> "did:plc:user1", rev |-> "rev11", shape |-> "ok",
       uri |-> OwnedUri("bad key"), time_us |-> 1005],
      [did |-> "did:plc:7iza6de2", rev |-> "rev12", shape |-> "ok",
       uri |-> OwnedUri("3l7jy2pqpz72p"), time_us |-> 1006] }

(* Stored cursors for the second feed: a checkpoint saved by an earlier    *)
(* run (older than the start of this run), and one that is current.        *)
EdgeStoredCursors == {500, 1000}

---------------------------------------------------------------------------
(* The onCreate callback up to its first await (main.ts 463-486). *)

generateEventId(event, t) ==
    DidSegments(event.did) \o << TextSeg(event.rev), NumSeg(t) >>

(* `${event.did}:${event.commit.rev}:..` throws a TypeError when the event *)
(* has no commit object.                                                   *)
generateEventIdThrows(event) == event.shape = "nocommit"

isValidEvent_AnyObject(event) == event.shape # "nocommit"

isValidEvent(event) == event.shape = "ok"

UriIncludes(uri, did) == \E i \in 1..Len(uri) : StrIncludes(uri[i], did)

ExtractRkey(uri) == uri[Len(uri)]

DidSchemaAccepts(did) == did \in {"did:plc:user1", "did:plc:7iza6de2", CONFIG_DID}

RkeySchemaAccepts(rkey) ==
    rkey \in {"3l7jxzftheq2o", "3l7jy25rx3t2s", "3l7jy2pqpz72p", "3l7jy2zq3z2qo",
              "3jzfcijpj2z2z", "self"}

HandleLikeSubject_MarkerAuthor(event) == event.uri[3]

HandleLikeSubject(event) == event.did

(* Where the callback stands when it first yields: "handleLike" when it    *)
(* awaits the labeler, otherwise the reason it returned.                   *)
CallbackOutcome_MatchFirst(event, t) ==
    IF generateEventIdThrows(event) THEN "threw"
    ELSE IF generateEventId(event, t) \in processedEvents THEN "duplicate"
    ELSE IF ~isValidEvent(event) THEN "invalid"
    ELSE IF ~UriIncludes(event.uri, CONFIG_DID) THEN "ignored"
    ELSE IF ~DidSchemaAccepts(event.did) THEN "threw"
    ELSE IF ExtractRkey(event.uri) = "" THEN "norkey"
    ELSE IF ~RkeySchemaAccepts(ExtractRkey(event.uri)) THEN "threw"
    ELSE IF \A k \in 1..Len(LABELS) : LABELS[k].rkey # ExtractRkey(event.uri) THEN "unmatched"
    ELSE "handleLike"

CallbackOutcome(event, t) ==
    IF generateEventIdThrows(event) THEN "threw"
    ELSE IF generateEventId(event, t) \in processedEvents THEN "duplicate"
    ELSE IF ~isValidEvent(event) THEN "invalid"
    ELSE IF ~UriIncludes(event.uri, CONFIG_DID) THEN "ignored"
    ELSE IF ~DidSchemaAccepts(event.did) THEN "threw"
    ELSE IF ExtractRkey(event.uri) = "" THEN "norkey"
    ELSE IF ~RkeySchemaAccepts(ExtractRkey(event.uri)) THEN "threw"
    ELSE "handleLike"

(* The labeler, after the mock of tests/schema_test.ts 125-172. *)

findLabelByPost_FirstByDefault(rkey) ==
    IF \E i \in 1..Len(LABELS) : LABELS[i].rkey = rkey
    THEN { i \in 1..Len(LABELS) : LABELS[i].rkey = rkey }
    ELSE {1}

findLabelByPost(rkey) == { i \in 1..Len(LABELS) : LABELS[i].rkey = rkey }

getCategoryFromLabel(identifier) ==
    IF identifier \in CATEGORY_PREFIXES THEN identifier ELSE "error"

(* What label(subject, rkey) does: "none" (returns without a request),     *)
(* "throw" (category validation fails) or "create" with the request.       *)
LabelerDecision_LabelsAnyKey(subject, rkey) ==
    [kind |-> "create", uri |-> subject, val |-> LABELS[1].identifier,
     category |-> LABELS[1].category]

LabelerDecision(subject, rkey) ==
    IF rkey = "self" THEN [kind |-> "none"]
    ELSE IF findLabelByPost(rkey) = {} THEN [kind |-> "none"]
    ELSE LET newLabel == LABELS[CHOOSE i \in findLabelByPost(rkey) :
                                   \A j \in findLabelByPost(rkey) : i <= j]
         IN  IF getCategoryFromLabel(newLabel.identifier) = "error"
             THEN [kind |-> "throw"]
             ELSE [kind |-> "create", uri |-> subject, val |-> newLabel.identifier,
                   category |-> getCategoryFromLabel(newLabel.identifier)]

---------------------------------------------------------------------------
(* Cursor writers. *)

Truthy(n) == n # 0

EventWriteValue_OwnPosition(task) == task.ev.time_us

EventWriteValue(task) == jetstreamCursor

(* handler.connected: true only in the Connected state. *)
HandlerConnected == connState = "Connected"

(* The subscription hands events to the onCreate callback only while the   *)
(* handler holds the connection; handler.shutdown() stops it from          *)
(* accepting events at once.                                               *)
FeedOpen_UntilClosed == connState \in {"Connected", "ShuttingDown"}

FeedOpen == connState = "Connected"

TimerGuard_CursorOnly == Truthy(jetstreamCursor)

TimerGuard == Truthy(jetstreamCursor) /\ HandlerConnected

InFlight == { i \in 1..Len(tasks) : tasks[i].pc = "handleLike" }

(* A record of one write: who issued it (and for which task, 0 if none),   *)
(* the value, the connection state and the positions of the events whose   *)
(* handleLike call was still pending, and whether closeConfig had run.     *)
WriteRec(src, val, by) ==
    [src |-> src, val |-> val, task |-> by, conn |-> connState,
     inflight |-> { tasks[i].ev.time_us : i \in InFlight \ {by} },
     closed |-> configClosed]

Alive == exitCode = "none"

---------------------------------------------------------------------------
Init ==
    /\ mainPc = "config"
    /\ exitCode = "none"
    /\ now = 1
    /\ configCursor \in StoredCursors
    /\ kvCursor = 0
    /\ jetstreamCursor = 0
    /\ connState = "Disconnected"
    /\ feedPos = 0
    /\ processedEvents = {}
    /\ tasks = << >>
    /\ applied = {}
    /\ lastWrite = [src |-> "none", val |-> 0, task |-> 0, conn |-> "Disconnected",
                    inflight |-> {}, closed |-> FALSE]
    /\ prevWrite = 0
    /\ isShuttingDown = FALSE
    /\ sigPc = [i \in 1..MaxSignals |-> "none"]
    /\ sigWill = [i \in 1..MaxSignals |-> "settles"]
    /\ calls = [handler |-> 0, labeler |-> 0, closeConfig |-> 0, kvClose |-> 0]
    /\ configClosed = FALSE
    /\ repeatedSignal = FALSE

---------------------------------------------------------------------------
(* main(), main.ts 332-435. *)

(* initializeConfig, verifyKvStore and the cursor check of lines 341-355. *)
MainConfig(ok) ==
    /\ Alive /\ mainPc = "config"
    /\ IF ~ok
       THEN /\ exitCode' = "1" /\ mainPc' = "failed"
            /\ UNCHANGED << configCursor, lastWrite, prevWrite >>
       ELSE /\ mainPc' = "auth"
            /\ exitCode' = exitCode
            /\ LET expectedCursor == now * 1000
               IN  IF configCursor < expectedCursor
                   THEN /\ configCursor' = expectedCursor
                        /\ lastWrite' = WriteRec("startup", expectedCursor, 0)
                        /\ prevWrite' = lastWrite.val
                   ELSE UNCHANGED << configCursor, lastWrite, prevWrite >>
    /\ UNCHANGED << now, kvCursor, jetstreamCursor, connState, feedPos, processedEvents,
                    tasks, applied, isShuttingDown, sigPc, sigWill,
                    calls, configClosed, repeatedSignal >>

(* Credentials check, agent.login, labeler.init, then new Jetstream,       *)
(* the listeners, the sweep interval and the call of handler.start().      *)
MainAuth(outcome) ==
    /\ Alive /\ mainPc = "auth"
    /\ IF outcome # "ok"
       THEN /\ exitCode' = "1" /\ mainPc' = "failed"
            /\ UNCHANGED << jetstreamCursor, connState >>
       ELSE /\ mainPc' = "starting"
            /\ exitCode' = exitCode
            /\ jetstreamCursor' = configCursor
            /\ connState' = "Connecting"
    /\ UNCHANGED << now, configCursor, kvCursor, feedPos, processedEvents, tasks, applied,
                    lastWrite, prevWrite, isShuttingDown, sigPc, sigWill, calls, configClosed, repeatedSignal >>

(* await handler.start() settles; on success the checkpoint timer and the  *)
(* signal listeners are installed.                                         *)
HandlerStart_LogsOnly(ok) ==
    /\ Alive /\ mainPc = "starting"
    /\ IF ok
       THEN /\ connState' = "Connected" /\ mainPc' = "running" /\ exitCode' = exitCode
       ELSE /\ connState' = "Disconnected" /\ mainPc' = "failed" /\ exitCode' = exitCode
    /\ UNCHANGED << now, configCursor, kvCursor, jetstreamCursor, feedPos, processedEvents,
                    tasks, applied, lastWrite, prevWrite, isShuttingDown, sigPc,
                    sigWill, calls, configClosed, repeatedSignal >>

HandlerStart(ok) ==
    /\ Alive /\ mainPc = "starting"
    /\ IF ok
       THEN /\ connState' = "Connected" /\ mainPc' = "running" /\ exitCode' = exitCode
       ELSE /\ connState' = "Disconnected" /\ mainPc' = "failed" /\ exitCode' = "1"
    /\ UNCHANGED << now, configCursor, kvCursor, jetstreamCursor, feedPos, processedEvents,
                    tasks, applied, lastWrite, prevWrite, isShuttingDown, sigPc,
                    sigWill, calls, configClosed, repeatedSignal >>

---------------------------------------------------------------------------
(* The feed and the onCreate callback, main.ts 461-500. *)

Min(a, b) == IF a <= b THEN a ELSE b

(* The feed delivers event e, in feed order from the position the          *)
(* subscription was opened at: the Jetstream client sets its cursor to     *)
(* e.time_us and runs the callback to its first await.                     *)
Deliver_OneAtATime(e) ==
    /\ Alive /\ mainPc = "running" /\ FeedOpen
    /\ InFlight = {}
    /\ Len(tasks) < MaxDeliveries
    /\ e.time_us > feedPos
    /\ feedPos' = e.time_us
    /\ jetstreamCursor' = e.time_us
    /\ tasks' = Append(tasks,
                  [ev |-> e, id |-> generateEventId(e, now), at |-> now,
                   pc |-> CallbackOutcome(e, now),
                   subject |-> HandleLikeSubject(e), rkey |-> ExtractRkey(e.uri),
                   wrote |-> FALSE, shut |-> isShuttingDown])
    /\ UNCHANGED << mainPc, exitCode, now, configCursor, kvCursor, connState,
                    processedEvents, applied, lastWrite, prevWrite, isShuttingDown,
                    sigPc, sigWill, calls, configClosed, repeatedSignal >>

Deliver(e) ==
    /\ Alive /\ mainPc = "running" /\ FeedOpen
    /\ Len(tasks) < MaxDeliveries
    /\ e.time_us > feedPos
    /\ feedPos' = e.time_us
    /\ jetstreamCursor' = e.time_us
    /\ tasks' = Append(tasks,
                  [ev |-> e, id |-> generateEventId(e, now), at |-> now,
                   pc |-> CallbackOutcome(e, now),
                   subject |-> HandleLikeSubject(e), rkey |-> ExtractRkey(e.uri),
                   wrote |-> FALSE, shut |-> isShuttingDown])
    /\ UNCHANGED << mainPc, exitCode, now, configCursor, kvCursor, connState,
                    processedEvents, applied, lastWrite, prevWrite, isShuttingDown,
                    sigPc, sigWill, calls, configClosed, repeatedSignal >>

(* await labeler.handleLike(did, rkey) settles for task i; service says    *)
(* whether the labeling service accepts a request.  When it resolves the   *)
(* callback goes on to lines 488-490.                                      *)
HandleLikeSettles_WritesAlways(i, service) ==
    /\ Alive /\ i \in InFlight
    /\ LET d == LabelerDecision(tasks[i].subject, tasks[i].rkey)
           resolved == d.kind = "none" \/ (d.kind = "create" /\ service = "ok")
       IN  /\ applied' = IF d.kind = "create"
                         THEN applied \cup {[uri |-> d.uri, val |-> d.val, task |-> i]}
                         ELSE applied
           /\ configCursor' = EventWriteValue(tasks[i])
           /\ lastWrite' = WriteRec("event", EventWriteValue(tasks[i]), i)
           /\ prevWrite' = lastWrite.val
           /\ tasks' = [tasks EXCEPT ![i].pc = IF resolved THEN "done" ELSE "failed",
                                     ![i].wrote = TRUE]
    /\ UNCHANGED << mainPc, exitCode, now, kvCursor, jetstreamCursor, connState, feedPos,
                    processedEvents, isShuttingDown, sigPc, sigWill,
                    calls, configClosed, repeatedSignal >>

HandleLikeSettles(i, service) ==
    /\ Alive /\ i \in InFlight
    /\ LET d == LabelerDecision(tasks[i].subject, tasks[i].rkey)
           resolved == d.kind = "none" \/ (d.kind = "create" /\ service = "ok")
       IN  /\ applied' = IF d.kind = "create"
                         THEN applied \cup {[uri |-> d.uri, val |-> d.val, task |-> i]}
                         ELSE applied
           /\ IF resolved /\ Truthy(jetstreamCursor)
              THEN /\ configCursor' = EventWriteValue(tasks[i])
                   /\ lastWrite' = WriteRec("event", EventWriteValue(tasks[i]), i)
                   /\ prevWrite' = lastWrite.val
              ELSE UNCHANGED << configCursor, lastWrite, prevWrite >>
           /\ tasks' = [tasks EXCEPT ![i].pc = IF resolved THEN "done" ELSE "failed",
                                     ![i].wrote = resolved /\ Truthy(jetstreamCursor)]
    /\ UNCHANGED << mainPc, exitCode, now, kvCursor, jetstreamCursor, connState, feedPos,
                    processedEvents, isShuttingDown, sigPc, sigWill,
                    calls, configClosed, repeatedSignal >>

---------------------------------------------------------------------------
(* The connection manager. *)

TransportError_Fatal ==
    /\ Alive /\ connState = "Connected"
    /\ connState' = "Disconnected"
    /\ exitCode' = "1"
    /\ UNCHANGED << mainPc, now, configCursor, kvCursor, jetstreamCursor, feedPos,
                    processedEvents, tasks, applied, lastWrite, prevWrite,
                    isShuttingDown, sigPc, sigWill, calls, configClosed, repeatedSignal >>

TransportError ==
    /\ Alive /\ connState = "Connected"
    /\ connState' = "Reconnecting"
    /\ UNCHANGED << mainPc, exitCode, now, configCursor, kvCursor, jetstreamCursor, feedPos,
                    processedEvents, tasks, applied, lastWrite, prevWrite,
                    isShuttingDown, sigPc, sigWill, calls, configClosed, repeatedSignal >>

(* The retry succeeds.  The subscription reopens at jetstream.cursor, so   *)
(* the feed may deliver again the events at or after the cursor.           *)
Reconnected(replay) ==
    /\ Alive /\ connState = "Reconnecting"
    /\ connState' = "Connected"
    /\ feedPos' = IF replay THEN Min(feedPos, jetstreamCursor - 1) ELSE feedPos
    /\ UNCHANGED << mainPc, exitCode, now, configCursor, kvCursor, jetstreamCursor,
                    processedEvents, tasks, applied, lastWrite, prevWrite,
                    isShuttingDown, sigPc, sigWill, calls, configClosed, repeatedSignal >>

(* The handler finishes closing after the shutdown closure stopped        *)
(* waiting for it (the 7000 ms timer won the race).                        *)
HandlerCloses ==
    /\ Alive /\ connState = "ShuttingDown"
    /\ \A i \in 1..MaxSignals : sigPc[i] # "race"
    /\ connState' = "Closed"
    /\ UNCHANGED << mainPc, exitCode, now, configCursor, kvCursor, jetstreamCursor, feedPos,
                    processedEvents, tasks, applied, lastWrite, prevWrite,
                    isShuttingDown, sigPc, sigWill, calls, configClosed, repeatedSignal >>

---------------------------------------------------------------------------
(* Timers. *)

(* Time passes.  The run starts at Date.now() = 1 (Init); main() reads the  *)
(* clock once, at line 341, and the event times of the feed are given      *)
(* relative to that start.                                                 *)
ClockAdvance(d) ==
    /\ Alive /\ mainPc # "config"
    /\ now + d <= MaxNow
    /\ now' = now + d
    /\ UNCHANGED << mainPc, exitCode, configCursor, kvCursor, jetstreamCursor, connState,
                    feedPos, processedEvents, tasks, applied, lastWrite, prevWrite,
                    isShuttingDown, sigPc, sigWill, calls, configClosed, repeatedSignal >>

(* The cache sweep of main.ts 398-407.  The interval timer is installed   *)
(* before handler.start(); when it fires is left open.                     *)
Expired(eventId, t) ==
    LET timeSeg == IF Len(eventId) >= 3 THEN eventId[3] ELSE TextSeg("undefined")
        eventTime == timeSeg.num
    IN  eventTime >= 0 /\ t - eventTime > EVENT_RETENTION_DURATION

CacheSweep ==
    /\ Alive /\ mainPc \in {"starting", "running"}
    /\ processedEvents' = { id \in processedEvents : ~Expired(id, now) }
    /\ UNCHANGED << mainPc, exitCode, now, configCursor, kvCursor, jetstreamCursor,
                    connState, feedPos, tasks, applied, lastWrite, prevWrite, isShuttingDown,
                    sigPc, sigWill, calls, configClosed, repeatedSignal >>

(* The checkpoint timer of main.ts 552-561. *)
CursorTimer ==
    /\ Alive /\ mainPc = "running"
    /\ IF TimerGuard
       THEN /\ kvCursor' = jetstreamCursor
            /\ lastWrite' = WriteRec("timer", jetstreamCursor, 0)
            /\ prevWrite' = lastWrite.val
       ELSE UNCHANGED << kvCursor, lastWrite, prevWrite >>
    /\ UNCHANGED << mainPc, exitCode, now, configCursor, jetstreamCursor, connState,
                    feedPos, processedEvents, tasks, applied, isShuttingDown,
                    sigPc, sigWill, calls, configClosed, repeatedSignal >>

---------------------------------------------------------------------------
(* The shutdown closure of main.ts 574-600; one invocation per signal.     *)
(* Each action is the code between two awaits.  A step that throws is      *)
(* caught at 591 and the finally block exits, all without an await.        *)

AlreadyShuttingDown_NoGuard == FALSE

AlreadyShuttingDown == isShuttingDown

Settlements == {"settles", "never"}

(* SIGINT or SIGTERM arrives and shutdown() is invoked; i is a free slot   *)
(* for the invocation.  Lines 575-586, up to the race.                     *)
Signal(i) ==
    /\ Alive /\ mainPc = "running"
    /\ sigPc[i] = "none"
    /\ \A j \in 1..(i - 1) : sigPc[j] # "none"
    /\ IF AlreadyShuttingDown
       THEN /\ repeatedSignal' = TRUE
            /\ UNCHANGED << isShuttingDown, sigPc, connState, calls >>
       ELSE /\ isShuttingDown' = TRUE
            /\ sigPc' = [sigPc EXCEPT ![i] = "race"]
            /\ calls' = [calls EXCEPT !.handler = @ + 1]
            /\ connState' = IF connState = "Closed" THEN "Closed" ELSE "ShuttingDown"
            /\ repeatedSignal' = repeatedSignal
    /\ UNCHANGED << mainPc, exitCode, now, configCursor, kvCursor, jetstreamCursor, feedPos,
                    processedEvents, tasks, applied, lastWrite, prevWrite, sigWill,
                    configClosed >>

(* The race of 583-586 is settled by handler.shutdown() (ok or a           *)
(* rejection) or by the 7000 ms timer; after it labeler.shutdown() is      *)
(* called (587).                                                           *)
RaceSettles(i, by, will) ==
    /\ Alive /\ sigPc[i] = "race"
    /\ connState' = IF by = "handler" THEN "Closed" ELSE connState
    /\ sigPc' = [sigPc EXCEPT ![i] = "labeler"]
    /\ sigWill' = [sigWill EXCEPT ![i] = will]
    /\ calls' = [calls EXCEPT !.labeler = @ + 1]
    /\ UNCHANGED << mainPc, exitCode, now, configCursor, kvCursor, jetstreamCursor,
                    feedPos, processedEvents, tasks, applied, lastWrite, prevWrite, isShuttingDown, configClosed, repeatedSignal >>

RaceRejects(i) ==
    /\ Alive /\ sigPc[i] = "race"
    /\ sigPc' = [sigPc EXCEPT ![i] = "exited"]
    /\ exitCode' = "0"
    /\ UNCHANGED << mainPc, now, configCursor, kvCursor, jetstreamCursor, connState,
                    feedPos, processedEvents, tasks, applied, lastWrite, prevWrite,
                    isShuttingDown, sigWill, calls, configClosed, repeatedSignal >>

(* await labeler.shutdown() settles; on success closeConfig() is called. *)
LabelerShutdownSettles(i, ok, will) ==
    /\ Alive /\ sigPc[i] = "labeler" /\ sigWill[i] = "settles"
    /\ IF ok
       THEN /\ sigPc' = [sigPc EXCEPT ![i] = "closeConfig"]
            /\ sigWill' = [sigWill EXCEPT ![i] = will]
            /\ calls' = [calls EXCEPT !.closeConfig = @ + 1]
            /\ configClosed' = TRUE
            /\ exitCode' = exitCode
       ELSE /\ sigPc' = [sigPc EXCEPT ![i] = "exited"]
            /\ exitCode' = "0"
            /\ UNCHANGED << sigWill, calls, configClosed >>
    /\ UNCHANGED << mainPc, now, configCursor, kvCursor, jetstreamCursor, connState,
                    feedPos, processedEvents, tasks, applied, lastWrite, prevWrite,
                    isShuttingDown, repeatedSignal >>

(* await closeConfig() settles; on success kv.close() is called; then the  *)
(* finally block exits.                                                    *)
CloseConfigSettles(i, ok) ==
    /\ Alive /\ sigPc[i] = "closeConfig" /\ sigWill[i] = "settles"
    /\ calls' = IF ok THEN [calls EXCEPT !.kvClose = @ + 1] ELSE calls
    /\ sigPc' = [sigPc EXCEPT ![i] = "exited"]
    /\ exitCode' = "0"
    /\ UNCHANGED << mainPc, now, configCursor, kvCursor, jetstreamCursor, connState,
                    feedPos, processedEvents, tasks, applied, lastWrite, prevWrite,
                    isShuttingDown, sigWill, configClosed, repeatedSignal >>

ShutdownStep ==
    \E i \in 1..MaxSignals :
        \/ \E by \in {"handler", "timeout"}, will \in Settlements : RaceSettles(i, by, will)
        \/ RaceRejects(i)
        \/ \E ok \in BOOLEAN, will \in Settlements : LabelerShutdownSettles(i, ok, will)
        \/ \E ok \in BOOLEAN : CloseConfigSettles(i, ok)

---------------------------------------------------------------------------
Next ==
    \/ \E ok \in BOOLEAN : MainConfig(ok)
    \/ \E outcome \in {"ok", "nocreds", "rejected"} : MainAuth(outcome)
    \/ \E ok \in BOOLEAN : HandlerStart(ok)
    \/ \E e \in Events : Deliver(e)
    \/ \E i \in 1..MaxDeliveries, service \in {"ok", "error"} : HandleLikeSettles(i, service)
    \/ TransportError
    \/ \E replay \in BOOLEAN : Reconnected(replay)
    \/ HandlerCloses
    \/ \E d \in {CACHE_CLEANUP_INTERVAL} : ClockAdvance(d)
    \/ CacheSweep
    \/ CursorTimer
    \/ \E i \in 1..MaxSignals : Signal(i)
    \/ ShutdownStep

Spec == Init /\ [][Next]_vars

---------------------------------------------------------------------------
(* The same program on the second feed. *)

InitEdge ==
    /\ mainPc = "config"
    /\ exitCode = "none"
    /\ now = 1
    /\ configCursor \in EdgeStoredCursors
    /\ kvCursor = 0
    /\ jetstreamCursor = 0
    /\ connState = "Disconnected"
    /\ feedPos = 0
    /\ processedEvents = {}
    /\ tasks = << >>
    /\ applied = {}
    /\ lastWrite = [src |-> "none", val |-> 0, task |-> 0, conn |-> "Disconnected",
                    inflight |-> {}, closed |-> FALSE]
    /\ prevWrite = 0
    /\ isShuttingDown = FALSE
    /\ sigPc = [i \in 1..MaxSignals |-> "none"]
    /\ sigWill = [i \in 1..MaxSignals |-> "settles"]
    /\ calls = [handler |-> 0, labeler |-> 0, closeConfig |-> 0, kvClose |-> 0]
    /\ configClosed = FALSE
    /\ repeatedSignal = FALSE

NextEdge ==
    \/ \E ok \in BOOLEAN : MainConfig(ok)
    \/ \E outcome \in {"ok", "nocreds", "rejected"} : MainAuth(outcome)
    \/ \E ok \in BOOLEAN : HandlerStart(ok)
    \/ \E e \in EdgeEvents : Deliver(e)
    \/ \E i \in 1..MaxDeliveries, service \in {"ok", "error"} : HandleLikeSettles(i, service)
    \/ TransportError
    \/ \E replay \in BOOLEAN : Reconnected(replay)
    \/ HandlerCloses
    \/ \E d \in {CACHE_CLEANUP_INTERVAL} : ClockAdvance(d)
    \/ CacheSweep
    \/ CursorTimer
    \/ \E i \in 1..MaxSignals : Signal(i)
    \/ ShutdownStep

SpecEdge == InitEdge /\ [][NextEdge]_vars

(* The same program on the third feed. *)

NextDrop ==
    \/ \E ok \in BOOLEAN : MainConfig(ok)
    \/ \E outcome \in {"ok", "nocreds", "rejected"} : MainAuth(outcome)
    \/ \E ok \in BOOLEAN : HandlerStart(ok)
    \/ \E e \in DropEvents : Deliver(e)
    \/ \E i \in 1..MaxDeliveries, service \in {"ok", "error"} : HandleLikeSettles(i, service)
    \/ TransportError
    \/ \E replay \in BOOLEAN : Reconnected(replay)
    \/ HandlerCloses
    \/ \E d \in {CACHE_CLEANUP_INTERVAL} : ClockAdvance(d)
    \/ CacheSweep
    \/ CursorTimer
    \/ \E i \in 1..MaxSignals : Signal(i)
    \/ ShutdownStep

SpecDrop == Init /\ [][NextDrop]_vars

---------------------------------------------------------------------------
(* Properties. *)

Called(i) == tasks[i].pc \in {"handleLike", "done", "failed"}

SameEvent(i, j) == tasks[i].ev.did = tasks[j].ev.did /\ tasks[i].ev.rev = tasks[j].ev.rev

TailSegment(uri) == uri[Len(uri)]

InCatalog(rkey) == \E k \in 1..Len(LABELS) : LABELS[k].rkey = rkey

OwnedByAuthority(uri) == Len(uri) >= 3 /\ uri[3] = CONFIG_DID

(* C1: an event whose trigger key is in the catalog and whose subject is   *)
(* owned by the authority gets exactly one handleLike call, however often  *)
(* it is delivered within the retention window.                            *)
C1_ExactlyOneLabelCall ==
    \A i \in 1..Len(tasks) :
        (InCatalog(TailSegment(tasks[i].ev.uri)) /\ OwnedByAuthority(tasks[i].ev.uri))
        => Cardinality({ j \in 1..Len(tasks) :
                           /\ SameEvent(i, j) /\ Called(j)
                           /\ tasks[j].at - tasks[i].at < EVENT_RETENTION_DURATION
                           /\ tasks[i].at - tasks[j].at < EVENT_RETENTION_DURATION }) = 1

(* C2: each cursor write carries a value at least that of the write        *)
(* issued before it.                                                       *)
C2_CursorMonotone == lastWrite.src # "none" => lastWrite.val >= prevWrite

(* C2 witness: an event wrote the cursor after a later event, which had    *)
(* completed first, had already written its own, later position.           *)
C2_Witness ==
    /\ lastWrite.src = "event"
    /\ \E j \in 1..Len(tasks) :
          /\ j > lastWrite.task /\ tasks[j].pc = "done"
          /\ prevWrite = tasks[j].ev.time_us
          /\ tasks[lastWrite.task].ev.time_us < prevWrite
    /\ lastWrite.val >= prevWrite

(* C3: no cursor write stores a position beyond an event whose handleLike  *)
(* call is still pending.                                                  *)
C3_WriteNotPastInFlight == \A p \in lastWrite.inflight : lastWrite.val <= p

(* C4: once a termination signal was accepted the process can always take  *)
(* a further step of the shutdown sequence until it has exited with 0:     *)
(* no step of the drain can block the exit.                                *)
C4_ShutdownAlwaysExits == (isShuttingDown /\ Alive) => ENABLED ShutdownStep

(* C5: when the drain has run through kv.close() and the process has       *)
(* exited, the persisted cursor equals the last known stream position.     *)
C5_FlushAtShutdown ==
    (exitCode = "0" /\ calls.kvClose = 1)
    => (configCursor = jetstreamCursor \/ kvCursor = jetstreamCursor)

(* C6: each step of the drain is invoked at most once per process.         *)
C6_ShutdownOnce ==
    /\ calls.handler <= 1 /\ calls.labeler <= 1
    /\ calls.closeConfig <= 1 /\ calls.kvClose <= 1

(* C6 witness: a further signal arrived during the shutdown, and the drain *)
(* ran to kv.close().                                                      *)
C6_Witness == repeatedSignal /\ calls.kvClose = 1 /\ calls.handler = 1

(* C7: a write of the checkpoint timer is issued only in the Connected     *)
(* state.                                                                  *)
C7_TimerOnlyWhenConnected == lastWrite.src = "timer" => lastWrite.conn = "Connected"

(* C7 witness: the timer wrote the position of a delivered event while     *)
(* connected, and the connection has dropped since.                        *)
C7_Witness ==
    /\ lastWrite.src = "timer" /\ kvCursor = jetstreamCursor
    /\ connState = "Reconnecting" /\ Len(tasks) > 0

(* C8: the identifier of an event that passed the duplicate check at time  *)
(* T is in the cache at every time before T + retention and absent from    *)
(* T + retention on.                                                       *)
C8_EntryPresentWithinRetention ==
    \A i \in 1..Len(tasks) :
        tasks[i].pc # "duplicate"
        => IF now - tasks[i].at < EVENT_RETENTION_DURATION
           THEN tasks[i].id \in processedEvents
           ELSE tasks[i].id \notin processedEvents

(* C9: two deliveries with the same actor and revision get the same dedup  *)
(* identifier, whenever they are received.                                 *)
C9_IdRedeliveryStable ==
    \A i, j \in 1..Len(tasks) : SameEvent(i, j) => tasks[i].id = tasks[j].id

(* C10: every request to the labeling service names the actor of the       *)
(* triggering event, not the marker post's author, and carries the         *)
(* identifier of the catalog entry keyed by the tail of the subject URI.   *)
C10_LabelNamesActor ==
    \A a \in applied :
        LET event == tasks[a.task].ev
        IN  /\ a.uri = event.did
            /\ a.uri # event.uri[3]
            /\ \E k \in 1..Len(LABELS) :
                  LABELS[k].rkey = TailSegment(event.uri) /\ LABELS[k].identifier = a.val

(* C10 witness: two different actors were labelled, each with its own      *)
(* label.                                                                  *)
C10_Witness ==
    \E a, b \in applied : a.uri # b.uri /\ a.val # b.val

---------------------------------------------------------------------------
(* Inputs of the labeler the properties range over: the actors of the two  *)
(* feeds, and trigger keys in and outside the catalog.                     *)
Subjects == {"did:plc:user1", "did:plc:7iza6de2", CONFIG_DID}

TriggerKeys ==
    { LABELS[k].rkey : k \in 1..Len(LABELS) }
        \cup {"3jzfcijpj2z2z", "3jzfcijpj222a", "zzzzzzzzzzzzz", "self"}

Identifiers == {"pvp", "pve", "rp", "", "invalid-label", "PVP"}

RequestsOf(i) == { a \in applied : a.task = i }

C12_NoLabelOnSelfTrigger ==
    /\ mainPc = "config" => \A s \in Subjects : LabelerDecision(s, "self").kind = "none"
    /\ \A i \in 1..Len(tasks) : tasks[i].rkey = "self" => RequestsOf(i) = {}

(* C12 witness: the authority liked its own 'self' record, the callback    *)
(* passed it to the labeler and completed without a request, in a run      *)
(* where another event was labelled.                                       *)
C12_Witness ==
    \E i \in 1..Len(tasks) :
        /\ tasks[i].rkey = "self" /\ tasks[i].ev.did = CONFIG_DID
        /\ OwnedByAuthority(tasks[i].ev.uri)
        /\ tasks[i].pc = "done" /\ RequestsOf(i) = {} /\ applied # {}

CatalogEntry(rkey) == LABELS[CHOOSE k \in 1..Len(LABELS) : LABELS[k].rkey = rkey]

(* C13: category validation returns pvp, pve and rp unchanged and fails    *)
(* for every other identifier, the empty identifier of the removal entry   *)
(* included, and the labeler throws for a catalog entry whose identifier   *)
(* fails it (both evaluated over their inputs in the first state); an      *)
(* event that resolves to such an entry gets no request to the labeling    *)
(* service and its handleLike call does not resolve.                       *)
C13_CategoryValidation ==
    /\ mainPc = "config"
       => /\ \A id \in Identifiers :
                getCategoryFromLabel(id) = IF id \in {"pvp", "pve", "rp"} THEN id ELSE "error"
          /\ \A s \in Subjects, k \in 1..Len(LABELS) :
                LABELS[k].identifier \notin {"pvp", "pve", "rp"}
                => LabelerDecision(s, LABELS[k].rkey).kind = "throw"
    /\ \A i \in 1..Len(tasks) :
          (InCatalog(tasks[i].rkey)
             /\ CatalogEntry(tasks[i].rkey).identifier \notin {"pvp", "pve", "rp"})
          => RequestsOf(i) = {} /\ tasks[i].pc # "done"

(* C13 witness: a like of the marker post of the removal entry reached the *)
(* labeler, whose call rejected without a request and without a cursor     *)
(* write.                                                                  *)
C13_Witness ==
    \E i \in 1..Len(tasks) :
        /\ tasks[i].rkey = "3l7jy2zq3z2qo" /\ CatalogEntry(tasks[i].rkey).identifier = ""
        /\ tasks[i].pc = "failed" /\ ~tasks[i].wrote /\ RequestsOf(i) = {}

(* C14: a cursor found in the store when the configuration is loaded is    *)
(* still the stored cursor, unchanged, when main() goes on to open the     *)
(* subscription.                                                           *)
C14_StoredCursorKept ==
    [][(mainPc = "config" /\ mainPc' = "auth" /\ Truthy(configCursor))
         => configCursor' = configCursor]_vars

(* C15: when main() has failed during startup (missing credentials, a      *)
(* rejected login, or handler.start() rejecting) the process has exited    *)
(* with status 1 and takes no further step, so nothing is retried; no      *)
(* checkpoint timer has written, no signal was handled, and no event has   *)
(* reached the callback, the labeler or the labeling service.              *)
C15_StartupFailureIsFatal ==
    mainPc = "failed"
    => /\ exitCode = "1"
       /\ ~ENABLED Next
       /\ Len(tasks) = 0 /\ applied = {}
       /\ lastWrite.src \notin {"timer", "event"} /\ kvCursor = 0
       /\ ~isShuttingDown /\ ~repeatedSignal
       /\ \A i \in 1..MaxSignals : sigPc[i] = "none"
       /\ calls = [handler |-> 0, labeler |-> 0, closeConfig |-> 0, kvClose |-> 0]

(* C15 witness: the configuration was loaded, the login succeeded and the  *)
(* Jetstream client was constructed at the startup cursor, and then        *)
(* handler.start() rejected.                                               *)
C15_Witness ==
    /\ mainPc = "failed" /\ exitCode = "1"
    /\ jetstreamCursor = configCursor /\ Truthy(jetstreamCursor)
    /\ connState = "Disconnected"

(* The event passes every check of the callback before the labeler call    *)
(* (main.ts 471-485).                                                      *)
PassesValidation(event) ==
    /\ isValidEvent(event)
    /\ UriIncludes(event.uri, CONFIG_DID)
    /\ DidSchemaAccepts(event.did)
    /\ ExtractRkey(event.uri) # ""
    /\ RkeySchemaAccepts(ExtractRkey(event.uri))

(* C16: a well-formed event whose subject is owned by the authority and    *)
(* whose trigger key is not in the catalog is passed to the labeler, gets  *)
(* no request to the labeling service, and once the labeler call has       *)
(* settled the per-event cursor write was issued for it, as it is for      *)
(* every event whose labeler call resolved.                                *)
C16_UnmatchedStillCheckpointed ==
    /\ \A i \in 1..Len(tasks) :
          (~InCatalog(TailSegment(tasks[i].ev.uri)) /\ OwnedByAuthority(tasks[i].ev.uri)
             /\ PassesValidation(tasks[i].ev))
          => /\ RequestsOf(i) = {}
             /\ Called(i)
             /\ (tasks[i].pc # "handleLike" => tasks[i].wrote)
    /\ \A i \in 1..Len(tasks) : tasks[i].pc = "done" => tasks[i].wrote

(* C16 witness: the latest cursor write is the per-event write of an event *)
(* with the unknown key 3jzfcijpj2z2z, and it stored that event's          *)
(* position.                                                               *)
C16_Witness ==
    /\ lastWrite.src = "event"
    /\ LET i == lastWrite.task
       IN  /\ TailSegment(tasks[i].ev.uri) = "3jzfcijpj2z2z"
           /\ OwnedByAuthority(tasks[i].ev.uri)
           /\ tasks[i].wrote /\ RequestsOf(i) = {}
           /\ configCursor = tasks[i].ev.time_us

(* C17: main() runs only once labels.ts has been evaluated, so in every    *)
(* state of a run: every trigger key of the catalog has exactly 13         *)
(* characters, in the catalog the module validates on load (labels.ts      *)
(* 4-46) and in the catalog of the current revision; the label schema      *)
(* accepts a key of length 13 and rejects another length; and the          *)
(* validated catalog has loaded.                                           *)
C17_TriggerKeysAre13 ==
    mainPc \in {"config", "auth", "starting", "running", "failed"}
    => /\ \A k \in 1..Len(DraftLABELS) : StrLen(DraftLABELS[k].rkey) = 13
       /\ \A k \in 1..Len(LABELS) : StrLen(LABELS[k].rkey) = 13
       /\ LabelSchemaAccepts([rkey |-> "3jzfcijpj2z2a", identifier |-> "test-label",
                              locales |-> 1])
       /\ ~LabelSchemaAccepts([rkey |-> "3jzfcijpj2z2aa", identifier |-> "test-label",
                               locales |-> 1])
       /\ DraftCatalogLoads

(* C18: when the drain has run through kv.close() and the process has      *)
(* exited, the connection manager, which the shutdown moved to             *)
(* ShuttingDown, has reached Closed.                                       *)
C18_ClosedAfterShutdown ==
    (exitCode = "0" /\ calls.kvClose = 1) => connState = "Closed"

(* C19: a connection in Reconnecting belongs to a live process and can     *)
(* always be re-established; the process exits with 1 only through a       *)
(* failed startup and with 0 only through a termination signal, so a       *)
(* transport error never ends it.                                          *)
C19_TransportErrorRecoverable ==
    /\ connState = "Reconnecting"
       => (Alive /\ ENABLED (\E replay \in BOOLEAN : Reconnected(replay)))
    /\ exitCode = "1" => (mainPc = "failed" /\ Len(tasks) = 0)
    /\ exitCode = "0" => isShuttingDown

(* C19 witness: after a transport error and a successful retry the         *)
(* connection is Connected again and the feed has delivered an event a     *)
(* second time from the subscription cursor.                               *)
C19_Witness ==
    /\ Alive /\ connState = "Connected" /\ ~isShuttingDown
    /\ \E i, j \in 1..Len(tasks) : i < j /\ SameEvent(i, j)

(* C20: an event whose subject URI does not have the authority's DID as    *)
(* its authority component gets no request to the labeling service and no  *)
(* per-event cursor write.                                                 *)
C20_OnlyOwnedSubjectsActionable ==
    \A i \in 1..Len(tasks) :
        ~OwnedByAuthority(tasks[i].ev.uri) => RequestsOf(i) = {} /\ ~tasks[i].wrote

(* C21: no callback that reaches the labeler call was invoked while the    *)
(* shutdown guard was set, and labeler.shutdown() is invoked only with the *)
(* guard set, so no handleLike call starts after either.                   *)
C21_NoEventAfterShutdown ==
    /\ \A i \in 1..Len(tasks) : Called(i) => ~tasks[i].shut
    /\ calls.labeler > 0 => isShuttingDown

(* C21 witness: the shutdown has gone past labeler.shutdown() while a      *)
(* handleLike call that started before it is still pending and the feed    *)
(* has further events that were not dispatched.                            *)
C21_Witness ==
    /\ Alive /\ isShuttingDown /\ calls.labeler = 1
    /\ InFlight # {} /\ Len(tasks) < MaxDeliveries
    /\ \E e \in EdgeEvents : e.time_us > feedPos
    /\ \A i \in 1..Len(tasks) : ~tasks[i].shut

(* The event lacks part of its structure, has no trigger segment, or has   *)
(* an actor or a trigger key that its schema rejects.                      *)
Malformed(event) ==
    \/ event.shape # "ok"
    \/ TailSegment(event.uri) = ""
    \/ ~DidSchemaAccepts(event.did)
    \/ ~RkeySchemaAccepts(TailSegment(event.uri))

(* C22: a malformed event is dropped inside the callback (it returned at   *)
(* a check, or threw and was caught) without a labeler call, a request or  *)
(* a cursor write; the process does not exit with an error; and a          *)
(* well-formed owned event delivered after it is passed to the labeler.    *)
C22_MalformedDropped ==
    /\ \A i \in 1..Len(tasks) :
          Malformed(tasks[i].ev)
          => /\ tasks[i].pc \in {"invalid", "norkey", "threw"}
             /\ RequestsOf(i) = {} /\ ~tasks[i].wrote
    /\ Len(tasks) > 0 => exitCode # "1"
    /\ \A i, j \in 1..Len(tasks) :
          (i < j /\ Malformed(tasks[i].ev) /\ ~Malformed(tasks[j].ev)
             /\ OwnedByAuthority(tasks[j].ev.uri))
          => Called(j)

(* C22 witness: an event threw inside the callback and the like delivered  *)
(* after it was labelled.                                                  *)
C22_Witness ==
    \E i, j \in 1..Len(tasks) :
        /\ i < j /\ tasks[i].pc = "threw" /\ Malformed(tasks[i].ev)
        /\ tasks[j].pc = "done" /\ RequestsOf(j) # {}

(* C23: an event whose labeler call rejected has at most one request to    *)
(* the labeling service and no per-event cursor write: every per-event     *)
(* write belongs to a call that resolved; and the process does not exit    *)
(* with an error once events are being handled.                            *)
C23_FailedCallContained ==
    /\ \A i \in 1..Len(tasks) :
          tasks[i].pc = "failed" => ~tasks[i].wrote /\ Cardinality(RequestsOf(i)) <= 1
    /\ lastWrite.src = "event" => tasks[lastWrite.task].pc = "done"
    /\ Len(tasks) > 0 => exitCode # "1"

(* C23 witness: the labeling service rejected the request of one event,    *)
(* whose callback ended without a write, and the process went on to label  *)
(* another delivery and write the cursor for it.                           *)
C23_Witness ==
    /\ Alive
    /\ \E i, j \in 1..Len(tasks) :
          /\ i < j
          /\ tasks[i].pc = "failed" /\ RequestsOf(i) # {} /\ ~tasks[i].wrote
          /\ tasks[j].pc = "done" /\ RequestsOf(j) # {} /\ tasks[j].wrote

(* C24: the identifier of an event that passed the duplicate check is in   *)
(* the dedup set from the moment the callback has run, for as long as the  *)
(* retention window lasts.                                                 *)
C24_PassedEventRecorded ==
    \A i \in 1..Len(tasks) :
        (tasks[i].pc \notin {"duplicate", "threw"}
           /\ now - tasks[i].at < EVENT_RETENTION_DURATION)
        => tasks[i].id \in processedEvents

(* C25: a pending labeler call holds nothing else up: every pending call   *)
(* can settle whatever the state of the others, and while a call is        *)
(* pending the feed can still dispatch each event that is next on it.      *)
C25_TasksIndependent ==
    (InFlight # {} /\ Alive)
    => /\ \A i \in InFlight : ENABLED HandleLikeSettles(i, "ok")
       /\ (mainPc = "running" /\ FeedOpen /\ Len(tasks) < MaxDeliveries)
          => \A e \in EdgeEvents : e.time_us > feedPos => ENABLED Deliver(e)

(* C25 witness: the labeler call of an earlier event is still pending      *)
(* while a later event of the feed has been dispatched, labelled and       *)
(* checkpointed.                                                           *)
C25_Witness ==
    \E i, j \in 1..Len(tasks) :
        /\ i < j /\ tasks[i].ev.time_us < tasks[j].ev.time_us
        /\ tasks[i].pc = "handleLike" /\ InCatalog(tasks[i].rkey)
        /\ tasks[j].pc = "done" /\ RequestsOf(j) # {} /\ tasks[j].wrote

(* C26: no cursor write, by the callback or by the checkpoint timer, is    *)
(* issued once closeConfig() has been invoked.                             *)
C26_NoWriteAfterClose == lastWrite.src \in {"event", "timer"} => ~lastWrite.closed

====
